---- MODULE Spec2Model ----
(***************************************************************************)
(* Model of the spatial store (GeoSpatialRepository), the ingestion        *)
(* orchestrator (ETLService) and the pipeline coordinator (DataPipeline)   *)
(* of urban-risk-lens.                                                     *)
(*                                                                         *)
(* The database is PostgreSQL (database_config.py:22) behind one           *)
(* SQLAlchemy Session that every component of a DataPipeline shares        *)
(* (data_pipeline.py:21-23).  No code path calls Session.rollback(), so    *)
(* once a statement, a flush or a commit fails, the transaction stays      *)
(* aborted and every later statement on the session raises.                *)
(*                                                                         *)
(* What the database can do to a call is a choice of the model: reject the *)
(* INSERT of a flush (as the NOT NULL geometry column of geo_models.py:33  *)
(* does when it is enforced), fail a commit, fail the statistics query.    *)
(* The refresh that follows a successful commit is taken to succeed.  A    *)
(* service is used for one public call and then left (__exit__ closes its  *)
(* session), as in data_pipeline.py:236-283; the next call runs on a new   *)
(* session over the same database.  The one call that is repeated on the   *)
(* same service is incremental_update, run a second time on its file.      *)
(***************************************************************************)
EXTENDS Integers, Sequences, FiniteSets, TLC

\* ------------------------------------------------------------------ bounds
MaxFeatures == 2
MaxFiles == 2
MaxId == 3

\* ------------------------------------------------------------- text values
\* A text value is a sequence of one-character strings; None is Python's
\* None / SQL NULL.
None == <<"<None>">>

Lower(c) == IF c = "A" THEN "a" ELSE IF c = "B" THEN "b" ELSE c

LowerText(t) == [k \in 1..Len(t) |-> Lower(t[k])]

\* s occurs in t as a contiguous run of characters
IsSubstring(s, t) ==
  \E k \in 0..(Len(t) - Len(s)) : SubSeq(t, k + 1, k + Len(s)) = s

\* pattern LIKE text: % matches any run of characters, _ any one character,
\* and a backslash makes the character after it stand for itself
RECURSIVE LikeMatch(_, _)
LikeMatch(p, t) ==
  IF p = <<>> THEN t = <<>>
  ELSE IF Head(p) = "\\"
  THEN /\ Len(p) >= 2
       /\ t # <<>>
       /\ p[2] = Head(t)
       /\ LikeMatch(Tail(Tail(p)), Tail(t))
  ELSE IF Head(p) = "%"
  THEN LikeMatch(Tail(p), t) \/ (t # <<>> /\ LikeMatch(p, Tail(t)))
  ELSE /\ t # <<>>
       /\ Head(p) = "_" \/ Head(p) = Head(t)
       /\ LikeMatch(Tail(p), Tail(t))

\* column.ilike(f"%{q}%"): NULL never matches; the query goes into the
\* pattern as it is, so its own % and _ are wildcards
ILike(col, q) ==
  /\ col # None
  /\ LikeMatch(<<"%">> \o LowerText(q) \o <<"%">>, LowerText(col))

\* Python truthiness of an optional string: None and "" are falsy
Truthy(t) == t # None /\ t # <<>>

\* an optional number (a Float or Integer column, a JSON number): NoNum is
\* None / NULL
NoNum == {}
Num(n) == {n}

\* ------------------------------------------------------------- geometries
\* The plane is cut down to one axis.  A coordinate is an integer count of
\* 1e-10 degrees; the unit of a distance is the metre of the model.
NullGeom == [type |-> "NULL", coordinates |-> <<>>]
Malformed == [type |-> "malformed", coordinates |-> <<>>]

\* feature.get('geometry', {}) of an element that has no geometry: {}
NoGeometry == [type |-> "absent", coordinates |-> <<>>]

\* ST_GeomFromGeoJSON(:geom_json) can read the geometry
Readable(g) == g # Malformed /\ g # NoGeometry

Point(a) == [type |-> "Point", coordinates |-> <<a>>]
\* the segment from lo to hi and everything between
Polygon(lo, hi) == [type |-> "Polygon", coordinates |-> <<lo, hi>>]
\* two separate points: a geometry that does not contain its centroid
MultiPoint(a, b) == [type |-> "MultiPoint", coordinates |-> <<a, b>>]

Abs(n) == IF n < 0 THEN -n ELSE n
Min2(a, b) == IF a <= b THEN a ELSE b

\* ST_Centroid of a well-formed geometry
ST_Centroid(g) ==
  IF g = NullGeom THEN NullGeom
  ELSE IF g.type = "Point" THEN g
  ELSE Point((g.coordinates[1] + g.coordinates[2]) \div 2)

\* ST_Distance(geometry, point): 0 inside the geometry, else the distance to
\* its nearest point
ST_Distance(g, c) ==
  IF g.type = "Point" THEN Abs(g.coordinates[1] - c)
  ELSE IF g.type = "MultiPoint"
  THEN Min2(Abs(g.coordinates[1] - c), Abs(g.coordinates[2] - c))
  ELSE IF c < g.coordinates[1] THEN g.coordinates[1] - c
  ELSE IF c > g.coordinates[2] THEN c - g.coordinates[2]
  ELSE 0

\* ST_AsGeoJSON(geometry), then json.loads: the coordinates are written with
\* at most 9 decimal digits, that is rounded to a multiple of 10 units
RoundTo9(c) == ((c + 5) \div 10) * 10

ST_AsGeoJSON(g) ==
  [type |-> g.type,
   coordinates |-> [k \in 1..Len(g.coordinates) |-> RoundTo9(g.coordinates[k])]]

\* ------------------------------------------------------------------ inputs
\* (Name, clean_name) of the elements: a name and one that contains it up
\* to case, an element named only by its clean name, an element without
\* name, a name that is a backslash
NamePairs ==
  {<<(<<"a">>), None>>, <<(<<"A", "b">>), None>>, <<None, (<<"b">>)>>,
   <<None, None>>, <<(<<"\\">>), None>>}

\* a GeoJSON feature: its properties map (a key that is missing reads as
\* None; extra is a key the typed schema has no column for) and its geometry
Feature(name, clean, mah, ilce, nufus, bina, skor, extra, geom) ==
  [Name |-> name, clean_name |-> clean, mahalle_adi |-> mah,
   ilce_adi |-> ilce, toplam_nufus |-> nufus, toplam_bina |-> bina,
   bilesik_risk_skoru |-> skor, extra |-> extra, geometry |-> geom]

\* the elements of the files the import operations read
Elements ==
  {Feature(p[1], p[2], None, None, NoNum, NoNum, NoNum, None,
           Polygon(0, 20)) : p \in NamePairs}
    \cup {Feature(<<"a">>, None, None, None, NoNum, NoNum, NoNum, None,
                  Malformed),
          Feature(<<"a">>, None, None, None, NoNum, NoNum, NoNum, None,
                  NoGeometry)}

\* the features the store is queried over: named by one name field each,
\* in districts that match up to case, with whole and fractional
\* populations, with and without a score, with coordinates of 9 and of 10
\* decimal digits, at equal distances and with a centroid outside
StoreElements ==
  {Feature(<<"a">>, None, None, <<"A">>, Num(1000), Num(1), Num(2),
           <<"x">>, Polygon(0, 20)),
   Feature(None, None, <<"b">>, <<"a">>, Num(2005), Num(2), Num(4),
           None, MultiPoint(0, 40)),
   Feature(None, <<"A", "b">>, None, <<"b">>, NoNum, NoNum, NoNum,
           <<"x">>, Point(14)),
   Feature(<<"b">>, None, None, <<"A", "b">>, Num(3000), Num(3), Num(3),
           None, Point(20)),
   Feature(<<"a">>, None, None, None, NoNum, NoNum, NoNum, None,
           Malformed)}

SeqsUpTo(S, n) == UNION {[1..k -> S] : k \in 0..n}

\* what json.load of a file yields, or the failure to read it
Docs ==
  {[type |-> "unreadable", body |-> <<>>],
   [type |-> "Unknown", body |-> <<>>]}
    \cup {[type |-> "Feature", body |-> <<e>>] : e \in Elements}
    \cup {[type |-> "FeatureCollection", body |-> b] :
            b \in SeqsUpTo(Elements, MaxFeatures)}

\* geojson_data.get('features', [])
DocFeatures(doc) == IF doc.type = "FeatureCollection" THEN doc.body ELSE <<>>

\* ------------------------------------------------------- database, session
IndexName == "idx_mahalle_risk_geometry"

\* the keys of a properties map
PropertyKeys ==
  {"Name", "clean_name", "mahalle_adi", "ilce_adi", "toplam_nufus",
   "toplam_bina", "bilesik_risk_skoru", "extra"}

\* feature.get('properties', {})
Properties(f) == [k \in PropertyKeys |-> f[k]]

\* the row with only the typed columns kept: the JSON column loses the key
\* that has no column
NewRow_typed_only(id, f) ==
  [id |-> id, name |-> f.Name, clean_name |-> f.clean_name,
   mahalle_adi |-> f.mahalle_adi, ilce_adi |-> f.ilce_adi,
   toplam_nufus |-> f.toplam_nufus, toplam_bina |-> f.toplam_bina,
   bilesik_risk_skoru |-> f.bilesik_risk_skoru,
   properties |-> [Properties(f) EXCEPT !["extra"] = None],
   geometry |-> NullGeom, centroid |-> NullGeom]

\* MahalleRiskData(**data): the row as add()/flush() inserts it, the typed
\* columns read from the properties, the whole properties map in the JSON
\* column, geometry and centroid not yet set
NewRow(id, f) ==
  [id |-> id, name |-> f.Name, clean_name |-> f.clean_name,
   mahalle_adi |-> f.mahalle_adi, ilce_adi |-> f.ilce_adi,
   toplam_nufus |-> f.toplam_nufus, toplam_bina |-> f.toplam_bina,
   bilesik_risk_skoru |-> f.bilesik_risk_skoru,
   properties |-> Properties(f), geometry |-> NullGeom,
   centroid |-> NullGeom]

\* UPDATE mahalle_risk_data SET geometry = ..., centroid = ST_Centroid(...)
\* WHERE id = :id, inside the open transaction
UpdateGeometry(txn, id, g) ==
  {IF r.id = id THEN [r EXCEPT !.geometry = g, !.centroid = ST_Centroid(g)]
   ELSE r : r \in txn}

\* Session.commit(): the rows written in the open transaction become visible
Commit(d) ==
  [d EXCEPT !.rows = d.rows \cup d.txnRows, !.txnRows = {}]

\* a database in which a failed statement leaves the transaction open and
\* the session usable, with what the transaction wrote so far
Abort_keeps_transaction(d) == d

\* a failed statement, flush or commit: the transaction is aborted, what it
\* wrote is lost and, as nothing rolls the session back, every later
\* statement of the session fails
Abort(d) == [d EXCEPT !.sess = "failed", !.txnRows = {}]

CreateFaults == {"none", "flush", "commit"}

\* create on a table whose id is not generated: every row is inserted with
\* the same id
create_with_fixed_id(d, f, fault) ==
  IF d.sess # "ok" \/ fault = "flush"
  THEN [db |-> Abort(d), ok |-> FALSE, id |-> 0]
  ELSE LET id == 1
           d1 == [d EXCEPT !.txnRows = @ \cup {NewRow(id, f)},
                           !.nextId = @ + 1]
       IN IF ~Readable(f.geometry)
          THEN [db |-> Abort(d1), ok |-> FALSE, id |-> 0]
          ELSE LET d2 == [d1 EXCEPT
                            !.txnRows = UpdateGeometry(@, id, f.geometry)]
               IN IF fault = "commit"
                  THEN [db |-> Abort(d2), ok |-> FALSE, id |-> 0]
                  ELSE [db |-> Commit(d2), ok |-> TRUE, id |-> id]

\* create with the commit moved before the geometry UPDATE: the inserted row
\* becomes visible without geometry and centroid
create_commits_before_update(d, f, fault) ==
  IF d.sess # "ok" \/ fault = "flush"
  THEN [db |-> Abort(d), ok |-> FALSE, id |-> 0]
  ELSE LET id == d.nextId
           d1 == Commit([d EXCEPT !.txnRows = @ \cup {NewRow(id, f)},
                                  !.nextId = id + 1])
       IN IF ~Readable(f.geometry)
          THEN [db |-> Abort(d1), ok |-> FALSE, id |-> 0]
          ELSE LET d2 == [d1 EXCEPT
                            !.rows = UpdateGeometry(@, id, f.geometry)]
               IN IF fault = "commit"
                  THEN [db |-> Abort(d2), ok |-> FALSE, id |-> 0]
                  ELSE [db |-> Commit(d2), ok |-> TRUE, id |-> id]

\* GeoSpatialRepository.create_from_geojson_feature.  fault is what the
\* database does to this call: reject the INSERT of flush() (constraint
\* violation, connection loss), fail the COMMIT, or neither.  The UPDATE
\* fails when ST_GeomFromGeoJSON cannot read the geometry.
create_from_geojson_feature(d, f, fault) ==
  IF d.sess # "ok" \/ fault = "flush"
  THEN [db |-> Abort(d), ok |-> FALSE, id |-> 0]
  ELSE LET id == d.nextId
           d1 == [d EXCEPT !.txnRows = @ \cup {NewRow(id, f)},
                           !.nextId = id + 1]
       IN IF ~Readable(f.geometry)
          THEN [db |-> Abort(d1), ok |-> FALSE, id |-> 0]
          ELSE LET d2 == [d1 EXCEPT
                            !.txnRows = UpdateGeometry(@, id, f.geometry)]
               IN IF fault = "commit"
                  THEN [db |-> Abort(d2), ok |-> FALSE, id |-> 0]
                  ELSE [db |-> Commit(d2), ok |-> TRUE, id |-> id]

\* CREATE INDEX without IF NOT EXISTS, in a catalog that does not refuse a
\* second index of the same name
create_index_unconditionally(d) ==
  IF d.sess # "ok"
  THEN [db |-> d, ok |-> FALSE]
  ELSE [db |-> Commit([d EXCEPT !.indexes = Append(@, IndexName)]),
        ok |-> TRUE]

\* GeoSpatialRepository.create_spatial_index: CREATE INDEX IF NOT EXISTS,
\* then commit.  indexes is the catalog: the indexes over the geometry
\* column, by name
create_spatial_index(d) ==
  IF d.sess # "ok"
  THEN [db |-> d, ok |-> FALSE]
  ELSE [db |-> Commit([d EXCEPT !.indexes =
                          IF \E k \in 1..Len(@) : @[k] = IndexName
                          THEN @ ELSE Append(@, IndexName)]),
        ok |-> TRUE]

\* GeoSpatialRepository.get_by_name: the rows a SELECT of this session sees
get_by_name(d, q) ==
  [ok |-> d.sess = "ok",
   rows |-> IF d.sess = "ok"
            THEN {r \in d.rows : \/ ILike(r.name, q)
                                 \/ ILike(r.clean_name, q)
                                 \/ ILike(r.mahalle_adi, q)}
            ELSE {}]

\* what Query.first() returns when no row matches: None
NotFound == [id |-> 0]

\* GeoSpatialRepository.get_by_id: filter(id == item_id).first()
get_by_id(d, id) ==
  LET m == {r \in d.rows : r.id = id}
  IN IF m = {} THEN NotFound ELSE CHOOSE r \in m : TRUE

\* GeoSpatialRepository.get_by_district: ilce_adi ILIKE '%district%'
get_by_district(d, q) == {r \in d.rows : ILike(r.ilce_adi, q)}

\* GeoSpatialRepository.get_as_geojson: the Feature document of a row, or
\* None
get_as_geojson(d, id) ==
  LET m == {r \in d.rows : r.id = id}
  IN IF m = {} THEN NotFound
     ELSE LET r == CHOOSE x \in m : TRUE
          IN [type |-> "Feature", id |-> r.id, properties |-> r.properties,
              geometry |-> ST_AsGeoJSON(r.geometry)]

\* a length in kilometres: m metres over MetresPerKm
MetresPerKm == 1000
Km(m) == [m |-> m, per |-> MetresPerKm]

\* distance_km * 1000
KmToMetres(km) == (km.m * MetresPerKm) \div km.per

\* a \leq b for lengths in kilometres
KmLeq(a, b) == a.m * b.per <= b.m * a.per

\* ST_DWithin with every distance taken as exactly the radius
find_on_circle(d, c, km) ==
  {r \in d.rows : ST_Distance(r.geometry, c) = KmToMetres(km)}

\* GeoSpatialRepository.find_within_distance: ST_DWithin(geometry, point,
\* distance_km * 1000)
find_within_distance(d, c, km) ==
  {r \in d.rows : ST_Distance(r.geometry, c) <= KmToMetres(km)}

\* find_nearest without its ORDER BY: any limit rows, in any order
find_nearest_unordered(d, c, limit) ==
  LET M == Cardinality(d.rows)
      n == IF limit <= M THEN limit ELSE M
  IN {[k \in 1..n |-> <<s[k], Km(ST_Distance(s[k].geometry, c))>>] :
        s \in {t \in [1..n -> d.rows] :
                 \A j, k \in 1..n : j # k => t[j] # t[k]}}

\* GeoSpatialRepository.find_nearest: the (row, distance in km) lists that
\* ORDER BY distance LIMIT limit can return.  The order of rows at the same
\* distance, and which of them the limit keeps, is the database's choice.
find_nearest(d, c, limit) ==
  LET M == Cardinality(d.rows)
      n == IF limit <= M THEN limit ELSE M
      dist(r) == ST_Distance(r.geometry, c)
  IN {[k \in 1..n |-> <<s[k], Km(dist(s[k]))>>] :
        s \in {t \in [1..n -> d.rows] :
                 /\ \A j, k \in 1..n : j # k => t[j] # t[k]
                 /\ \A j, k \in 1..n : j < k => dist(t[j]) <= dist(t[k])
                 /\ \A r \in d.rows :
                      (\A k \in 1..n : t[k] # r) =>
                        \A k \in 1..n : dist(t[k]) <= dist(r)}}

\* toplam_nufus is a Float column: a population is counted in tenths
PopUnit == 10

\* the number in a column that is not NULL
Val(x) == CHOOSE n \in x : TRUE

\* SUM(col) over the rows of S that have a value; AVG, MAX and MIN likewise
\* skip the NULLs
RECURSIVE SumOf(_, _)
SumOf(S, col) ==
  IF S = {} THEN 0
  ELSE LET r == CHOOSE x \in S : TRUE
       IN (IF r[col] = NoNum THEN 0 ELSE Val(r[col])) + SumOf(S \ {r}, col)

HasValue(S, col) == {r \in S : r[col] # NoNum}

MaxOf(S, col) ==
  Val((CHOOSE r \in HasValue(S, col) :
         \A x \in HasValue(S, col) : Val(x[col]) <= Val(r[col]))[col])

MinOf(S, col) ==
  Val((CHOOSE r \in HasValue(S, col) :
         \A x \in HasValue(S, col) : Val(r[col]) <= Val(x[col]))[col])

\* a quotient kept exact: num over den
Ratio(num, den) == [num |-> num, den |-> den]
Zero == Ratio(0, 1)

\* the aggregates taken over the whole table, without the district filter
statistics_of_all_rows(d, q) ==
  LET S == d.rows
      scored == HasValue(S, "bilesik_risk_skoru")
  IN [neighborhood_count |-> Cardinality(S),
      average_risk |->
        IF scored = {} \/ SumOf(S, "bilesik_risk_skoru") = 0 THEN Zero
        ELSE Ratio(SumOf(S, "bilesik_risk_skoru"), Cardinality(scored)),
      max_risk |->
        IF scored = {} THEN 0 ELSE MaxOf(S, "bilesik_risk_skoru"),
      min_risk |->
        IF scored = {} THEN 0 ELSE MinOf(S, "bilesik_risk_skoru"),
      total_population |->
        IF HasValue(S, "toplam_nufus") = {} THEN 0
        ELSE SumOf(S, "toplam_nufus") \div PopUnit,
      total_buildings |->
        IF HasValue(S, "toplam_bina") = {} THEN 0
        ELSE SumOf(S, "toplam_bina")]

\* GeoSpatialRepository.get_statistics_by_district: the aggregates over the
\* rows whose ilce_adi matches; an aggregate that is NULL or 0 reads as 0;
\* int() cuts the population sum down to a whole number
get_statistics_by_district(d, q) ==
  LET S == {r \in d.rows : ILike(r.ilce_adi, q)}
      scored == HasValue(S, "bilesik_risk_skoru")
      nufus == SumOf(S, "toplam_nufus")
  IN [neighborhood_count |-> Cardinality(S),
      average_risk |->
        IF scored = {} \/ SumOf(S, "bilesik_risk_skoru") = 0 THEN Zero
        ELSE Ratio(SumOf(S, "bilesik_risk_skoru"), Cardinality(scored)),
      max_risk |->
        IF scored = {} THEN 0 ELSE MaxOf(S, "bilesik_risk_skoru"),
      min_risk |->
        IF scored = {} THEN 0 ELSE MinOf(S, "bilesik_risk_skoru"),
      total_population |->
        IF HasValue(S, "toplam_nufus") = {} THEN 0 ELSE nufus \div PopUnit,
      total_buildings |->
        IF HasValue(S, "toplam_bina") = {} THEN 0
        ELSE SumOf(S, "toplam_bina")]

\* ------------------------------------------------------------------- state
VARIABLES
  db,               \* the database and the shared Session (SessionLocal())
  predictor,        \* DataPipeline.predictor: is a model configured
  op,               \* the public operation the caller is running
  pc,               \* the position inside it
  files,            \* len(files): the files this call is to process
  doc,              \* the document being processed
  i,                \* index of the next feature of doc (1-based)
  loaded_count,     \* load_geojson_to_db.loaded_count / len(results)
  errors,           \* load_geojson_to_db.errors: indexes of failed features
  new_count,        \* incremental_update.new_count
  updated_count,    \* incremental_update.updated_count
  fileResult,       \* what process_geojson_file returned last
  results,          \* results of a directory run, one entry per file
  report,           \* run_full_pipeline.pipeline_result
  output_file,      \* run_full_pipeline argument: is an output file given
  make_predictions, \* run_full_pipeline argument
  outcome,          \* how the last public call ended: returned or raised
  executed,         \* history: the pipeline steps executed in this run
  createdIds,       \* history: ids of the Features this call created
  injected          \* history: did the database fail a flush, commit or query

vars ==
  <<db, predictor, op, pc, files, doc, i, loaded_count, errors,
    new_count, updated_count, fileResult, results, report, output_file,
    make_predictions, outcome, executed, createdIds, injected>>

EmptyDoc == [type |-> "FeatureCollection", body |-> <<>>]

NoFileResult ==
  [success |-> FALSE, error |-> FALSE, total_features |-> 0,
   loaded_count |-> 0]

\* the dict process_geojson_file returns
FileResult(total, loaded) ==
  [success |-> TRUE, error |-> FALSE, total_features |-> total,
   loaded_count |-> loaded]

\* the dict process_multiple_geojson_files records for a file that raised
FailedFile ==
  [success |-> FALSE, error |-> TRUE, total_features |-> 0,
   loaded_count |-> 0]

\* pipeline_result: keys holds which of the optional keys are present
EmptyReport == [steps |-> <<>>, keys |-> {}, success |-> FALSE]

Step(name, ok) == [step |-> name, success |-> ok]

Init ==
  /\ db = [rows |-> {}, txnRows |-> {}, indexes |-> <<>>, sess |-> "ok",
           nextId |-> 1]
  /\ predictor \in BOOLEAN
  /\ op = "none"
  /\ pc = "idle"
  /\ files = 0
  /\ doc = EmptyDoc
  /\ i = 1
  /\ loaded_count = 0
  /\ errors = <<>>
  /\ new_count = 0
  /\ updated_count = 0
  /\ fileResult = NoFileResult
  /\ results = <<>>
  /\ report = EmptyReport
  /\ output_file = FALSE
  /\ make_predictions = FALSE
  /\ outcome = [op |-> "none", status |-> "none"]
  /\ executed = <<>>
  /\ createdIds = {}
  /\ injected = FALSE

\* ------------------------------------------------------------ public calls
\* the caller starts a public operation on a freshly constructed service
Begin(kind) ==
  /\ pc = "idle"
  /\ op' = kind
  /\ UNCHANGED predictor

\* the id sequence is capped: a document is processed only if its features
\* can all be given ids up to MaxId
Fits(d) == db.nextId + Len(DocFeatures(d)) - 1 <= MaxId

Running(kind) == [op |-> kind, status |-> "running"]
Returned(kind) == [op |-> kind, status |-> "returned"]
Raised(kind) == [op |-> kind, status |-> "raised"]

\* the faults the database can still inflict on a create of f
ApplicableFaults(d, f) ==
  IF d.sess # "ok" THEN {"none"}
  ELSE IF ~Readable(f.geometry) THEN {"none", "flush"}
  ELSE CreateFaults

\* a direct call of GeoSpatialRepository.create_from_geojson_feature
CallCreate ==
  \E f \in Elements : \E fault \in ApplicableFaults(db, f) :
    LET r == create_from_geojson_feature(db, f, fault) IN
      /\ Begin("create")
      /\ db.nextId <= MaxId
      /\ db' = r.db
      /\ outcome' = IF r.ok THEN Returned("create") ELSE Raised("create")
      /\ createdIds' = IF r.ok THEN {r.id} ELSE {}
      /\ injected' = (fault # "none")
      /\ pc' = "done"
      /\ UNCHANGED <<files, doc, i, loaded_count, errors, new_count,
                     updated_count, fileResult, results, report, output_file,
                     make_predictions, executed>>

\* a direct call of GeoSpatialRepository.create_spatial_index
CallCreateSpatialIndex ==
  LET r == create_spatial_index(db) IN
    /\ Begin("index")
    /\ db' = r.db
    /\ outcome' = IF r.ok THEN Returned("index") ELSE Raised("index")
    /\ pc' = "done"
    /\ UNCHANGED <<files, doc, i, loaded_count, errors, new_count,
                   updated_count, fileResult, results, report, output_file,
                   make_predictions, executed, createdIds, injected>>

\* ETLService.process_geojson_file called on one path
CallProcessFile ==
  /\ Begin("file")
  /\ pc' = "extract"
  /\ files' = 1
  /\ outcome' = Running("file")
  /\ UNCHANGED <<db, doc, i, loaded_count, errors, new_count,
                 updated_count, fileResult, results, report, output_file,
                 make_predictions, executed, createdIds, injected>>

\* ETLService.process_multiple_geojson_files (discover_and_process_all) over
\* the n files found; with no file it returns the empty list at once
CallProcessMultiple ==
  \E n \in 0..MaxFiles :
    /\ Begin("multi")
    /\ files' = n
    /\ pc' = IF n = 0 THEN "done" ELSE "extract"
    /\ outcome' = IF n = 0 THEN Returned("multi") ELSE Running("multi")
    /\ UNCHANGED <<db, doc, i, loaded_count, errors, new_count,
                   updated_count, fileResult, results, report, output_file,
                   make_predictions, executed, createdIds, injected>>

\* DataPipeline.run_full_pipeline called on one path
CallRunPipeline ==
  \E outf \in BOOLEAN : \E mp \in BOOLEAN :
    /\ Begin("pipeline")
    /\ pc' = "extract"
    /\ files' = 1
    /\ output_file' = outf
    /\ make_predictions' = mp
    /\ outcome' = Running("pipeline")
    /\ UNCHANGED <<db, doc, i, loaded_count, errors, new_count,
                   updated_count, fileResult, results, report, executed,
                   createdIds, injected>>

\* DataPipeline.batch_process_directory over the n files found: each file is
\* run with make_predictions = bool(self.predictor), and with an output file
\* when an output directory is given
CallBatch ==
  \E n \in 0..MaxFiles : \E outdir \in BOOLEAN :
    /\ Begin("batch")
    /\ files' = n
    /\ pc' = IF n = 0 THEN "done" ELSE "extract"
    /\ output_file' = outdir
    /\ make_predictions' = predictor
    /\ outcome' = IF n = 0 THEN Returned("batch") ELSE Running("batch")
    /\ UNCHANGED <<db, doc, i, loaded_count, errors, new_count,
                   updated_count, fileResult, results, report, executed,
                   createdIds, injected>>

\* DataPipeline.incremental_update called on one path
CallIncremental ==
  /\ Begin("incr")
  /\ pc' = "incrOpen"
  /\ files' = 1
  /\ outcome' = Running("incr")
  /\ UNCHANGED <<db, doc, i, loaded_count, errors, new_count,
                 updated_count, fileResult, results, report, output_file,
                 make_predictions, executed, createdIds, injected>>

\* DataPipeline.incremental_update called a second time, straight after it
\* returned, on the same pipeline and the same file, which has not changed:
\* json.load yields the same document
CallIncrementalAgain ==
  /\ pc = "done"
  /\ op = "incr"
  /\ outcome = Returned("incr")
  /\ Fits(doc)
  /\ op' = "incr_again"
  /\ pc' = "incrLoop"
  /\ i' = 1
  /\ new_count' = 0
  /\ updated_count' = 0
  /\ outcome' = Running("incr")
  /\ createdIds' = {}
  /\ UNCHANGED <<db, predictor, files, doc, loaded_count, errors,
                 fileResult, results, report, output_file, make_predictions,
                 executed, injected>>

\* GeoSpatialRepository.bulk_import_geojson called on a decoded document
CallBulkImport ==
  \E d \in Docs :
    /\ d.type # "unreadable"
    /\ Fits(d)
    /\ Begin("bulk")
    /\ pc' = "bulkLoop"
    /\ files' = 1
    /\ doc' = d
    /\ outcome' = Running("bulk")
    /\ UNCHANGED <<db, i, loaded_count, errors, new_count,
                   updated_count, fileResult, results, report, output_file,
                   make_predictions, executed, createdIds, injected>>

\* ------------------------------------------------------ calls of the store
\* the arguments the store is queried with: names and districts (one with
\* a LIKE wildcard, one that matches nothing), centres, radii, limits
Queries == {<<"a">>, <<"B">>, <<"_">>, <<"c">>}
Centers == {0, 10, 20, 30}
Radii == {Km(0), Km(10), Km(20)}
MaxLimit == MaxId + 1

\* a read-only call of the repository returns value, or raises on a session
\* that accepts no statement
Answer(kind, args, value) ==
  /\ Begin(kind)
  /\ pc' = "done"
  /\ outcome' = IF db.sess = "ok"
                THEN [op |-> kind, status |-> "returned", args |-> args,
                      value |-> value]
                ELSE Raised(kind)
  /\ UNCHANGED <<db, files, doc, i, loaded_count, errors, new_count,
                 updated_count, fileResult, results, report, output_file,
                 make_predictions, executed, createdIds, injected>>

\* create_from_geojson_feature called on a feature of the store's domain;
\* it returns the row, of which the id is kept
StoreCreate ==
  \E f \in StoreElements : \E fault \in ApplicableFaults(db, f) :
    LET r == create_from_geojson_feature(db, f, fault) IN
      /\ Begin("create")
      /\ db.nextId <= MaxId
      /\ db' = r.db
      /\ outcome' = IF r.ok
                    THEN [op |-> "create", status |-> "returned",
                          args |-> f, value |-> r.id]
                    ELSE Raised("create")
      /\ createdIds' = IF r.ok THEN {r.id} ELSE {}
      /\ injected' = (fault # "none")
      /\ pc' = "done"
      /\ UNCHANGED <<files, doc, i, loaded_count, errors, new_count,
                     updated_count, fileResult, results, report, output_file,
                     make_predictions, executed>>

CallGetById ==
  /\ pc = "idle"
  /\ \E id \in 1..MaxId : Answer("get_by_id", id, get_by_id(db, id))

CallGetByName ==
  /\ pc = "idle"
  /\ \E q \in Queries : Answer("get_by_name", q, get_by_name(db, q).rows)

CallGetByDistrict ==
  /\ pc = "idle"
  /\ \E q \in Queries :
       Answer("get_by_district", q, get_by_district(db, q))

CallFindWithinDistance ==
  /\ pc = "idle"
  /\ \E c \in Centers : \E km \in Radii :
       Answer("find_within_distance", <<c, km>>,
              find_within_distance(db, c, km))

CallFindNearest ==
  /\ pc = "idle"
  /\ \E c \in Centers : \E limit \in 0..MaxLimit :
       \E s \in find_nearest(db, c, limit) :
         Answer("find_nearest", <<c, limit>>, s)

CallStatistics ==
  /\ pc = "idle"
  /\ \E q \in Queries :
       Answer("get_statistics_by_district", q,
              get_statistics_by_district(db, q))

\* Session.close(): the open transaction is rolled back and the connection
\* released; the session of the next service starts clean
close(d) == [d EXCEPT !.sess = "ok", !.txnRows = {}]

\* the caller leaves the with block of the service it used (__exit__ closes
\* the session) and constructs the next one, with or without a model
ExitService ==
  /\ pc = "done"
  /\ pc' = "idle"
  /\ db' = close(db)
  /\ predictor' \in BOOLEAN
  /\ op' = "none"
  /\ files' = 0
  /\ doc' = EmptyDoc
  /\ i' = 1
  /\ loaded_count' = 0
  /\ errors' = <<>>
  /\ new_count' = 0
  /\ updated_count' = 0
  /\ fileResult' = NoFileResult
  /\ results' = <<>>
  /\ report' = EmptyReport
  /\ output_file' = FALSE
  /\ make_predictions' = FALSE
  /\ outcome' = [op |-> "none", status |-> "none"]
  /\ executed' = <<>>
  /\ createdIds' = {}
  /\ injected' = FALSE

\* ------------------------------------------------- process_geojson_file
\* how a finished run_full_pipeline hands its report back: to the caller, or
\* to the results list of batch_process_directory
PipelineReturns(rep) ==
  /\ report' = rep
  /\ IF op = "batch"
     THEN /\ results' = Append(results, rep)
          /\ pc' = "next"
          /\ outcome' = outcome
     ELSE /\ results' = results
          /\ pc' = "done"
          /\ outcome' = Returned("pipeline")

\* the callers of process_geojson_file without their try/except: a file that
\* fails ends the whole call with the exception
FileEnds_propagates(ok, res) ==
  /\ fileResult' = res
  /\ doc' = EmptyDoc
  /\ i' = 1
  /\ loaded_count' = 0
  /\ errors' = <<>>
  /\ IF ~ok
     THEN /\ outcome' = Raised(op)
          /\ pc' = "done"
          /\ UNCHANGED <<results, report, executed>>
     ELSE CASE op = "file" ->
                 /\ outcome' = Returned("file")
                 /\ pc' = "done"
                 /\ UNCHANGED <<results, report, executed>>
            [] op = "multi" ->
                 /\ results' = Append(results, res)
                 /\ pc' = "next"
                 /\ UNCHANGED <<outcome, report, executed>>
            [] OTHER ->
                 /\ executed' = Append(executed, "etl")
                 /\ report' = [report EXCEPT
                                 !.steps = Append(@, Step("etl", TRUE))]
                 /\ pc' = "predict"
                 /\ UNCHANGED <<results, outcome>>

\* what the caller of process_geojson_file does with its result (ok) or its
\* exception (~ok): process_geojson_file's own caller,
\* process_multiple_geojson_files, or step 1 of run_full_pipeline.  The
\* locals of process_geojson_file and load_geojson_to_db end with the call.
FileEnds(ok, res) ==
  /\ fileResult' = res
  /\ doc' = EmptyDoc
  /\ i' = 1
  /\ loaded_count' = 0
  /\ errors' = <<>>
  /\ CASE op = "file" ->
            /\ outcome' = IF ok THEN Returned("file") ELSE Raised("file")
            /\ pc' = "done"
            /\ UNCHANGED <<results, report, executed>>
       [] op = "multi" ->
            /\ results' = Append(results, IF ok THEN res ELSE FailedFile)
            /\ pc' = "next"
            /\ UNCHANGED <<outcome, report, executed>>
       [] OTHER ->
            /\ executed' = Append(executed, "etl")
            /\ IF ok
               THEN /\ report' = [report EXCEPT
                                    !.steps = Append(@, Step("etl", TRUE))]
                    /\ pc' = "predict"
                    /\ UNCHANGED <<results, outcome>>
               ELSE PipelineReturns(
                      [report EXCEPT !.steps = Append(@, Step("etl", FALSE))])

\* extract_geojson: json.load of the file.  An unreadable file raises out of
\* process_geojson_file.
Extract ==
  /\ pc = "extract"
  /\ \E d \in Docs :
       /\ Fits(d)
       /\ IF d.type = "unreadable"
          THEN FileEnds(FALSE, NoFileResult)
          ELSE /\ doc' = d
               /\ i' = 1
               /\ loaded_count' = 0
               /\ errors' = <<>>
               /\ pc' = "load"
               /\ UNCHANGED <<fileResult, results, report, outcome,
                              executed>>
  /\ UNCHANGED <<db, predictor, op, files, new_count, updated_count,
                 output_file, make_predictions, createdIds, injected>>

\* the loop of load_geojson_to_db counting an element as loaded whether or
\* not its create succeeded
LoadFeature_counts_every_element ==
  /\ pc = "load"
  /\ i <= Len(DocFeatures(doc))
  /\ LET f == DocFeatures(doc)[i] IN
       \E fault \in ApplicableFaults(db, f) :
         LET r == create_from_geojson_feature(db, f, fault) IN
           /\ db' = r.db
           /\ loaded_count' = loaded_count + 1
           /\ errors' = IF r.ok THEN errors ELSE Append(errors, i)
           /\ createdIds' = IF r.ok THEN createdIds \cup {r.id}
                            ELSE createdIds
           /\ injected' = (injected \/ fault # "none")
  /\ i' = i + 1
  /\ UNCHANGED <<predictor, op, pc, files, doc, new_count,
                 updated_count, fileResult, results, report, output_file,
                 make_predictions, outcome, executed>>

\* load_geojson_to_db, one iteration of the loop over the features: create
\* inside try/except, count or collect the error
LoadFeature ==
  /\ pc = "load"
  /\ i <= Len(DocFeatures(doc))
  /\ LET f == DocFeatures(doc)[i] IN
       \E fault \in ApplicableFaults(db, f) :
         LET r == create_from_geojson_feature(db, f, fault) IN
           /\ db' = r.db
           /\ loaded_count' = IF r.ok THEN loaded_count + 1 ELSE loaded_count
           /\ errors' = IF r.ok THEN errors ELSE Append(errors, i)
           /\ createdIds' = IF r.ok THEN createdIds \cup {r.id}
                            ELSE createdIds
           /\ injected' = (injected \/ fault # "none")
  /\ i' = i + 1
  /\ UNCHANGED <<predictor, op, pc, files, doc, new_count,
                 updated_count, fileResult, results, report, output_file,
                 make_predictions, outcome, executed>>

\* process_geojson_file returning its result dict straight after the load,
\* without the call of create_spatial_index
FinishFile_without_index ==
  /\ pc = "load"
  /\ i > Len(DocFeatures(doc))
  /\ db' = db
  /\ FileEnds(TRUE, FileResult(Len(DocFeatures(doc)), loaded_count))
  /\ UNCHANGED <<predictor, op, files, new_count, updated_count,
                 output_file, make_predictions, createdIds, injected>>

\* process_geojson_file after the load: create_spatial_index, which raises
\* on an aborted session, then the result dict
FinishFile ==
  /\ pc = "load"
  /\ i > Len(DocFeatures(doc))
  /\ LET r == create_spatial_index(db) IN
       /\ db' = r.db
       /\ IF r.ok
          THEN FileEnds(TRUE, FileResult(Len(DocFeatures(doc)), loaded_count))
          ELSE FileEnds(FALSE, NoFileResult)
  /\ UNCHANGED <<predictor, op, files, new_count, updated_count,
                 output_file, make_predictions, createdIds, injected>>

\* the loop of a directory run moves to the next file, or returns the list
NextFile ==
  /\ pc = "next"
  /\ IF Len(results) = files
     THEN /\ pc' = "done"
          /\ outcome' = Returned(op)
          /\ UNCHANGED <<report, executed>>
     ELSE /\ pc' = "extract"
          /\ report' = EmptyReport
          /\ executed' = <<>>
          /\ UNCHANGED outcome
  /\ UNCHANGED <<db, predictor, op, files, doc, i, loaded_count, errors,
                 new_count, updated_count, fileResult, results, output_file,
                 make_predictions, createdIds, injected>>

\* ---------------------------------------------------- run_full_pipeline
\* step 2 is entered: make_predictions and self.predictor and its model
EnrichConfigured == make_predictions /\ predictor

\* step 2 writing its prediction into the stored rows as their composite
\* risk score
Enrich_overwrites_scores ==
  /\ pc = "predict"
  /\ EnrichConfigured
  /\ output_file
  /\ \E fails \in BOOLEAN :
       /\ report' = [report EXCEPT
                       !.steps = Append(@, Step("prediction", ~fails))]
       /\ db' = IF fails THEN db
                ELSE [db EXCEPT !.rows =
                        {[r EXCEPT !.bilesik_risk_skoru = Num(9)] : r \in @}]
  /\ executed' = Append(executed, "prediction")
  /\ pc' = "stats"
  /\ UNCHANGED <<predictor, op, files, doc, i, loaded_count, errors,
                 new_count, updated_count, fileResult, results, output_file,
                 make_predictions, outcome, createdIds, injected>>

\* step 2 predicting and recording its outcome whether or not an output file
\* is given
Enrich_without_output_file ==
  /\ pc = "predict"
  /\ EnrichConfigured
  /\ \E fails \in BOOLEAN :
       report' = [report EXCEPT
                    !.steps = Append(@, Step("prediction", ~fails))]
  /\ executed' = Append(executed, "prediction")
  /\ pc' = "stats"
  /\ UNCHANGED <<db, predictor, op, files, doc, i, loaded_count, errors,
                 new_count, updated_count, fileResult, results, output_file,
                 make_predictions, outcome, createdIds, injected>>

\* step 2 with an output file: read the input again, predict, write the
\* output; any exception is recorded as a failed step
Enrich ==
  /\ pc = "predict"
  /\ EnrichConfigured
  /\ output_file
  /\ \E fails \in BOOLEAN :
       report' = [report EXCEPT
                    !.steps = Append(@, Step("prediction", ~fails))]
  /\ executed' = Append(executed, "prediction")
  /\ pc' = "stats"
  /\ UNCHANGED <<db, predictor, op, files, doc, i, loaded_count, errors,
                 new_count, updated_count, fileResult, results, output_file,
                 make_predictions, outcome, createdIds, injected>>

\* step 2 not entered, or entered without an output file: nothing is
\* predicted and nothing is recorded
SkipEnrich ==
  /\ pc = "predict"
  /\ ~(EnrichConfigured /\ output_file)
  /\ pc' = "stats"
  /\ UNCHANGED <<db, predictor, op, files, doc, i, loaded_count, errors,
                 new_count, updated_count, fileResult, results, report,
                 output_file, make_predictions, outcome, executed,
                 createdIds, injected>>

\* step 3 without its try/except: a failing statistics query ends the run
\* with the exception
CollectStatistics_unguarded ==
  /\ pc = "stats"
  /\ \E fault \in BOOLEAN :
       IF db.sess = "ok" /\ ~fault
       THEN /\ report' = [report EXCEPT !.keys = @ \cup {"statistics"}]
            /\ pc' = "complete"
            /\ UNCHANGED <<db, injected, outcome>>
       ELSE /\ db' = Abort(db)
            /\ injected' = TRUE
            /\ pc' = "done"
            /\ outcome' = Raised(op)
            /\ UNCHANGED report
  /\ executed' = Append(executed, "statistics")
  /\ UNCHANGED <<predictor, op, files, doc, i, loaded_count, errors,
                 new_count, updated_count, fileResult, results, output_file,
                 make_predictions, createdIds>>

\* step 3: get_etl_statistics inside try/except; a failure is only printed
CollectStatistics ==
  /\ pc = "stats"
  /\ \E fault \in BOOLEAN :
       IF db.sess = "ok" /\ ~fault
       THEN /\ report' = [report EXCEPT !.keys = @ \cup {"statistics"}]
            /\ UNCHANGED <<db, injected>>
       ELSE /\ db' = Abort(db)
            /\ injected' = TRUE
            /\ UNCHANGED report
  /\ executed' = Append(executed, "statistics")
  /\ pc' = "complete"
  /\ UNCHANGED <<predictor, op, files, doc, i, loaded_count, errors,
                 new_count, updated_count, fileResult, results, output_file,
                 make_predictions, outcome, createdIds>>

\* all(step.get('success', False) for step in steps)
AllStepsSucceeded(steps) == \A k \in 1..Len(steps) : steps[k].success

\* the end of run_full_pipeline: end_time, success, return
Complete ==
  /\ pc = "complete"
  /\ PipelineReturns(
       [report EXCEPT !.keys = @ \cup {"end_time", "success"},
                      !.success = AllStepsSucceeded(report.steps)])
  /\ UNCHANGED <<db, predictor, op, files, doc, i, loaded_count, errors,
                 new_count, updated_count, fileResult, output_file,
                 make_predictions, executed, createdIds, injected>>

\* --------------------------------------------------- incremental_update
\* open(new_data_file) and json.load, outside any try: an unreadable file
\* raises to the caller
IncrOpen ==
  /\ pc = "incrOpen"
  /\ \E d \in Docs :
       /\ Fits(d)
       /\ IF d.type = "unreadable"
          THEN /\ outcome' = Raised("incr")
               /\ pc' = "done"
               /\ UNCHANGED doc
          ELSE /\ doc' = d
               /\ pc' = "incrLoop"
               /\ UNCHANGED outcome
  /\ i' = 1
  /\ new_count' = 0
  /\ updated_count' = 0
  /\ UNCHANGED <<db, predictor, op, files, loaded_count, errors,
                 fileResult, results, report, output_file, make_predictions,
                 executed, createdIds, injected>>

\* properties.get('Name') or properties.get('clean_name')
LookupName(f) == IF Truthy(f.Name) THEN f.Name ELSE f.clean_name

\* the loop of incremental_update creating the element whether or not the
\* lookup found a Feature
IncrStep_always_creates ==
  /\ pc = "incrLoop"
  /\ i <= Len(DocFeatures(doc))
  /\ LET f == DocFeatures(doc)[i]
         name == LookupName(f)
         existing == get_by_name(db, name)
     IN IF ~Truthy(name)
        THEN /\ i' = i + 1
             /\ UNCHANGED <<db, new_count, updated_count, outcome, pc,
                            createdIds, injected>>
        ELSE IF ~existing.ok
        THEN /\ outcome' = Raised("incr")
             /\ pc' = "done"
             /\ UNCHANGED <<db, i, new_count, updated_count, createdIds,
                            injected>>
        ELSE \E fault \in ApplicableFaults(db, f) :
               LET r == create_from_geojson_feature(db, f, fault) IN
                 /\ db' = r.db
                 /\ injected' = (injected \/ fault # "none")
                 /\ IF r.ok
                    THEN /\ new_count' =
                              IF existing.rows = {} THEN new_count + 1
                              ELSE new_count
                         /\ updated_count' =
                              IF existing.rows = {} THEN updated_count
                              ELSE updated_count + 1
                         /\ createdIds' = createdIds \cup {r.id}
                         /\ i' = i + 1
                         /\ UNCHANGED <<outcome, pc>>
                    ELSE /\ outcome' = Raised("incr")
                         /\ pc' = "done"
                         /\ UNCHANGED <<new_count, updated_count, createdIds,
                                        i>>
  /\ UNCHANGED <<predictor, op, files, doc, loaded_count, errors,
                 fileResult, results, report, output_file, make_predictions,
                 executed>>

\* one iteration of the loop of incremental_update: no try/except, so a
\* failing get_by_name or create ends the call with the exception
IncrStep ==
  /\ pc = "incrLoop"
  /\ i <= Len(DocFeatures(doc))
  /\ LET f == DocFeatures(doc)[i]
         name == LookupName(f)
         existing == get_by_name(db, name)
     IN IF ~Truthy(name)
        THEN /\ i' = i + 1
             /\ UNCHANGED <<db, new_count, updated_count, outcome, pc,
                            createdIds, injected>>
        ELSE IF ~existing.ok
        THEN /\ outcome' = Raised("incr")
             /\ pc' = "done"
             /\ UNCHANGED <<db, i, new_count, updated_count, createdIds,
                            injected>>
        ELSE IF existing.rows = {}
        THEN \E fault \in ApplicableFaults(db, f) :
               LET r == create_from_geojson_feature(db, f, fault) IN
                 /\ db' = r.db
                 /\ injected' = (injected \/ fault # "none")
                 /\ IF r.ok
                    THEN /\ new_count' = new_count + 1
                         /\ createdIds' = createdIds \cup {r.id}
                         /\ i' = i + 1
                         /\ UNCHANGED <<outcome, pc>>
                    ELSE /\ outcome' = Raised("incr")
                         /\ pc' = "done"
                         /\ UNCHANGED <<new_count, createdIds, i>>
                 /\ UNCHANGED updated_count
        ELSE /\ updated_count' = updated_count + 1
             /\ i' = i + 1
             /\ UNCHANGED <<db, new_count, outcome, pc, createdIds, injected>>
  /\ UNCHANGED <<predictor, op, files, doc, loaded_count, errors,
                 fileResult, results, report, output_file, make_predictions,
                 executed>>

\* incremental_update returns its three counts
IncrReturn ==
  /\ pc = "incrLoop"
  /\ i > Len(DocFeatures(doc))
  /\ outcome' = Returned("incr")
  /\ pc' = "done"
  /\ UNCHANGED <<db, predictor, op, files, doc, i, loaded_count, errors,
                 new_count, updated_count, fileResult, results, report,
                 output_file, make_predictions, executed, createdIds,
                 injected>>

\* -------------------------------------------------- bulk_import_geojson
\* one iteration of the loop of bulk_import_geojson: create inside
\* try/except, results.append(item) on success
BulkStep ==
  /\ pc = "bulkLoop"
  /\ i <= Len(DocFeatures(doc))
  /\ LET f == DocFeatures(doc)[i] IN
       \E fault \in ApplicableFaults(db, f) :
         LET r == create_from_geojson_feature(db, f, fault) IN
           /\ db' = r.db
           /\ loaded_count' = IF r.ok THEN loaded_count + 1 ELSE loaded_count
           /\ createdIds' = IF r.ok THEN createdIds \cup {r.id}
                            ELSE createdIds
           /\ injected' = (injected \/ fault # "none")
  /\ i' = i + 1
  /\ UNCHANGED <<predictor, op, pc, files, doc, errors, new_count,
                 updated_count, fileResult, results, report, output_file,
                 make_predictions, outcome, executed>>

\* bulk_import_geojson returns the list of created items
BulkReturn ==
  /\ pc = "bulkLoop"
  /\ i > Len(DocFeatures(doc))
  /\ outcome' = Returned("bulk")
  /\ pc' = "done"
  /\ UNCHANGED <<db, predictor, op, files, doc, i, loaded_count, errors,
                 new_count, updated_count, fileResult, results, report,
                 output_file, make_predictions, executed, createdIds,
                 injected>>

\* ----------------------------------------------------------- specification
Next ==
  \/ CallCreate
  \/ CallCreateSpatialIndex
  \/ CallProcessFile
  \/ CallProcessMultiple
  \/ CallRunPipeline
  \/ CallBatch
  \/ CallIncremental
  \/ CallIncrementalAgain
  \/ CallBulkImport
  \/ Extract
  \/ LoadFeature
  \/ FinishFile
  \/ NextFile
  \/ Enrich
  \/ SkipEnrich
  \/ CollectStatistics
  \/ Complete
  \/ IncrOpen
  \/ IncrStep
  \/ IncrReturn
  \/ BulkStep
  \/ BulkReturn
  \/ ExitService

Spec == Init /\ [][Next]_vars

\* the steps of a running call: the code is sequential, so a call that can
\* take its next step takes it
RunStep ==
  \/ Extract
  \/ LoadFeature
  \/ FinishFile
  \/ Enrich
  \/ SkipEnrich
  \/ CollectStatistics
  \/ Complete

FairSpec == Spec /\ WF_vars(RunStep)

\* the repository used on its own: creates, the index, and the queries
StoreNext ==
  \/ StoreCreate
  \/ CallCreateSpatialIndex
  \/ CallGetById
  \/ CallGetByName
  \/ CallGetByDistrict
  \/ CallFindWithinDistance
  \/ CallFindNearest
  \/ CallStatistics
  \/ ExitService

StoreSpec == Init /\ [][StoreNext]_vars

\* ------------------------------------------------------------------ claims
Range(q) == {q[k] : k \in 1..Len(q)}

\* K: the elements of a batch whose geometry the store cannot read
MalformedCount(b) ==
  Cardinality({k \in 1..Len(b) : ~Readable(b[k].geometry)})

\* the loop of load_geojson_to_db has run over every feature of the document
LoadDone == pc = "load" /\ i > Len(DocFeatures(doc))

\* the report reads as succeeded: result.get('success') is truthy
ReportSucceeded(r) == "success" \in r.keys /\ r.success

IngestSucceeded(r) == Step("etl", TRUE) \in Range(r.steps)
IngestFailed(r) == Step("etl", FALSE) \in Range(r.steps)

PipelineReturned ==
  op = "pipeline" /\ pc = "done" /\ outcome = Returned("pipeline")

\* C1: importFile, for a batch of N elements of which K have a malformed
\* geometry (and no other failure of the database): when the load loop has
\* passed the last element, loaded = N - K and each of the N - K valid
\* elements is retrievable by id.
C1_LoadedIsTotalMinusMalformed ==
  (LoadDone /\ ~injected /\ results = <<>>) =>
    LET N == Len(DocFeatures(doc))
        K == MalformedCount(DocFeatures(doc))
    IN /\ loaded_count = N - K
       /\ Cardinality({id \in createdIds : get_by_id(db, id) # NotFound})
            = N - K

\* a stored record carries its geometry and the centroid derived from it
RowComplete(r) ==
  /\ r.geometry # NullGeom
  /\ r.centroid # NullGeom
  /\ r.centroid = ST_Centroid(r.geometry)

\* C2: create is atomic: in every step of every operation, the records that
\* become observable are complete (geometry and its centroid) and belong to
\* a create that succeeded in that very step; a create that fails, at the
\* insert, at the geometry update or at the commit, makes no record
\* observable, then or at any later commit on the session.
C2_CreateAtomic ==
  [][\A r \in db'.rows \ db.rows :
       /\ RowComplete(r)
       /\ r.id \in createdIds' \ createdIds]_vars

\* a file import in which a create succeeded, a later create failed, and
\* create_spatial_index, the next committing operation, was then attempted
C2_Witness ==
  /\ op = "file"
  /\ outcome = Raised("file")
  /\ createdIds # {}
  /\ db.nextId > Cardinality(db.rows) + 1
  /\ \A r \in db.rows : RowComplete(r)

\* C3: run_full_pipeline returns success = true if and only if Ingest
\* succeeded; a failure of Enrich alone does not flip it.
C3_SuccessIffIngest ==
  PipelineReturned => (ReportSucceeded(report) <=> IngestSucceeded(report))

\* C4: when Ingest fails the returned report carries a success flag equal to
\* false, its steps are the failed Ingest outcome alone, and neither Enrich
\* nor CollectStatistics is executed.
C4_AbortedReport ==
  (PipelineReturned /\ IngestFailed(report)) =>
    /\ "success" \in report.keys
    /\ report.success = FALSE
    /\ report.steps = <<Step("etl", FALSE)>>
    /\ executed = <<"etl">>

\* one run of run_full_pipeline, called directly or by
\* batch_process_directory, is under way / has returned its report
RunActive ==
  op \in {"pipeline", "batch"}
    /\ pc \in {"extract", "load", "predict", "stats", "complete"}

RunEnded ==
  \/ op = "pipeline" /\ pc = "done"
  \/ op = "batch" /\ pc = "next"

Aborted(r) == IngestFailed(r) /\ "end_time" \notin r.keys
Completed(r) == IngestSucceeded(r) /\ "end_time" \in r.keys

StepNames(steps) == [k \in 1..Len(steps) |-> steps[k].step]

\* the orders in which the steps of one run can have executed
StepOrders ==
  {<<>>, <<"etl">>, <<"etl", "prediction">>, <<"etl", "statistics">>,
   <<"etl", "prediction", "statistics">>}

\* where the run stands in Pending -> Ingesting -> {Aborted | Ingested} ->
\* [Enriching] -> CollectingStats -> Completed
C5_PhaseOrder ==
  /\ outcome.status # "raised" \/ outcome.op \notin {"pipeline", "batch"}
  /\ (op \in {"pipeline", "batch"}) =>
       /\ executed \in StepOrders
       /\ StepNames(report.steps) \in
            {<<>>, <<"etl">>, <<"etl", "prediction">>}
       /\ pc \in {"extract", "load"} => executed = <<>>
       /\ pc = "predict" => executed = <<"etl">> /\ IngestSucceeded(report)
       /\ pc \in {"stats", "complete"} => IngestSucceeded(report)
       /\ pc = "complete" => executed[Len(executed)] = "statistics"
  /\ RunEnded =>
       /\ Aborted(report) \/ Completed(report)
       /\ ~(Aborted(report) /\ Completed(report))
       /\ Aborted(report) => executed = <<"etl">>
       /\ Completed(report) => executed[Len(executed)] = "statistics"

\* C5: every run of run_full_pipeline returns a report in exactly one of the
\* terminal states Aborted and Completed and never raises; its steps execute
\* and are recorded in the order Ingest, Enrich, CollectStatistics, following
\* the state machine; and once it has returned, no step executes.
C5_StateMachine ==
  /\ []C5_PhaseOrder
  /\ [][(op = "pipeline" /\ pc = "done") =>
          (op' = "none" /\ pc' = "idle")]_vars
  /\ (RunActive ~> RunEnded)

\* a run that went through Ingest, Enrich and CollectStatistics, in this
\* order, and returned its report Completed
C5_Witness ==
  /\ op = "pipeline"
  /\ pc = "done"
  /\ outcome = Returned("pipeline")
  /\ Completed(report)
  /\ executed = <<"etl", "prediction", "statistics">>

\* C6: after a successful Ingest, CollectStatistics is attempted and the run
\* completes; when CollectStatistics fails, the report records it as a step
\* outcome with success = false.
C6_StatisticsFailureRecorded ==
  (RunEnded /\ IngestSucceeded(report)) =>
    /\ "statistics" \in Range(executed)
    /\ Completed(report)
    /\ ("statistics" \notin report.keys) =>
         Step("statistics", FALSE) \in Range(report.steps)

\* C7: a create that fails on one element never ends load_geojson_to_db,
\* bulk_import_geojson or incremental_update with an exception: the failure
\* is counted and the loop goes on to the next element.
C7_ItemErrorsStayInside ==
  /\ outcome # Raised("bulk")
  /\ ~(outcome = Raised("incr") /\ i <= Len(DocFeatures(doc)))
  /\ pc = "load" => loaded_count + Len(errors) = i - 1

\* C8: when process_geojson_file has loaded a batch in which K elements
\* failed, it returns a result from which K can be read: total_features -
\* loaded_count = K.
C8_ResultExposesFailures ==
  [][(op = "file" /\ LoadDone) =>
       /\ outcome' = Returned("file")
       /\ fileResult'.success
       /\ fileResult'.total_features - fileResult'.loaded_count
            = Len(errors)]_vars

\* what a directory run counts as a succeeded file: r.get('success')
ResultSucceeded(r) ==
  IF op = "batch" THEN ReportSucceeded(r) ELSE r.success

Succeeded(rs) == {k \in 1..Len(rs) : ResultSucceeded(rs[k])}
Failed(rs) == {k \in 1..Len(rs) : ~ResultSucceeded(rs[k])}

\* C9: a directory run (process_multiple_geojson_files,
\* batch_process_directory) ends by returning exactly one result per file;
\* a file whose processing fails is recorded as a failed result and the run
\* goes on to the next file; succeeded + failed = files attempted.
C9_OneResultPerFile ==
  (op \in {"multi", "batch"}) =>
    /\ Len(results) <= files
    /\ pc = "done" =>
         /\ outcome = Returned(op)
         /\ Len(results) = files
         /\ Cardinality(Succeeded(results)) + Cardinality(Failed(results))
              = files
    /\ (pc = "next" /\ ~fileResult.success) =>
         ~ResultSucceeded(results[Len(results)])
    /\ (pc = "next" /\ op = "multi" /\ fileResult.success) =>
         ResultSucceeded(results[Len(results)])

\* a directory run of two files that returned: the first file failed and is
\* recorded as failed, the second was still processed and succeeded
C9_Witness ==
  /\ op \in {"multi", "batch"}
  /\ pc = "done"
  /\ files = 2
  /\ Len(results) = 2
  /\ Failed(results) = {1}
  /\ Succeeded(results) = {2}

\* the element incremental_update is about to process carries a name
IncrNamed ==
  /\ pc = "incrLoop"
  /\ i <= Len(DocFeatures(doc))
  /\ Truthy(LookupName(DocFeatures(doc)[i]))

IncrLookup == get_by_name(db, LookupName(DocFeatures(doc)[i])).rows

C11_IndexIdempotent ==
  [][/\ Len(db'.indexes) <= 1
     /\ (pc = "idle" /\ op' = "index") =>
          /\ outcome' = Returned("index")
          /\ db'.indexes = <<IndexName>>
          /\ db.indexes # <<>> => db' = db
     /\ (LoadDone /\ db.sess = "ok") =>
          /\ fileResult'.success
          /\ db'.indexes = <<IndexName>>
          /\ db.indexes # <<>> => db' = db]_vars

\* a run over two files that both succeeded: create_spatial_index was
\* called once after each, and there is one index
C11_Witness ==
  /\ op = "multi"
  /\ pc = "done"
  /\ Len(results) = 2
  /\ \A k \in 1..2 : results[k].success
  /\ db.indexes = <<IndexName>>

\* C12: create_spatial_index leaves the Features as they are: in every step
\* that calls it, directly or at the end of a file import, also right after
\* a create failed on the session, the observable Features, the id sequence
\* and the state of the session are the same before and after.
C12_IndexLeavesFeatures ==
  [][((pc = "idle" /\ op' = "index") \/ LoadDone) =>
       /\ db'.rows = db.rows
       /\ db'.nextId = db.nextId
       /\ db'.sess = db.sess
       /\ db'.txnRows = {}]_vars

\* create_spatial_index was called on a store that holds Features right
\* after a create of the same file import failed
C12_Witness ==
  /\ op = "file"
  /\ outcome = Raised("file")
  /\ db.sess = "failed"
  /\ db.rows # {}
  /\ db.indexes = <<IndexName>>

\* create_from_geojson_feature has just returned the row of feature
\* outcome.args with id outcome.value
Created == outcome.op = "create" /\ outcome.status = "returned"

\* the document get_as_geojson returns carries every key of the properties
\* of F with its value
SameProperties(g, F) == \A k \in PropertyKeys : g.properties[k] = F[k]

\* C13 as stated: get_as_geojson(create(F).id) is a Feature document whose
\* geometry equals the geometry of F and whose properties hold every key of
\* F with the same value.
C13_RoundTripExact ==
  Created =>
    LET F == outcome.args
        g == get_as_geojson(db, outcome.value)
    IN /\ g # NotFound
       /\ g.type = "Feature"
       /\ g.geometry = F.geometry
       /\ SameProperties(g, F)

\* C13, amended: the geometry comes back with the type of F and with every
\* coordinate within 1e-9 (10 units) of the coordinate of F, as 9 decimal
\* digits are written; the properties hold every key of F with its value,
\* the key without a column included.
C13_RoundTripWithinTolerance ==
  Created =>
    LET F == outcome.args
        g == get_as_geojson(db, outcome.value)
    IN /\ g # NotFound
       /\ g.type = "Feature"
       /\ g.id = outcome.value
       /\ g.geometry.type = F.geometry.type
       /\ Len(g.geometry.coordinates) = Len(F.geometry.coordinates)
       /\ \A k \in 1..Len(F.geometry.coordinates) :
            Abs(g.geometry.coordinates[k] - F.geometry.coordinates[k]) <= 10
       /\ SameProperties(g, F)

\* a feature was created that has a key without a column and a coordinate
\* of 10 decimal digits, and its document does not return that coordinate
C13_Witness ==
  /\ Created
  /\ outcome.args.extra # None
  /\ get_as_geojson(db, outcome.value).geometry # outcome.args.geometry

\* find_nearest has just returned outcome.value for centre outcome.args[1]
\* and limit outcome.args[2]
Nearest == outcome.op = "find_nearest" /\ outcome.status = "returned"

\* C14: on a store of M Features find_nearest(center, limit) returns exactly
\* min(limit, M) (Feature, distance in km) pairs, each a stored Feature with
\* its distance, and the distances never decrease along the list.
C14_NearestCountAndOrder ==
  Nearest =>
    LET v == outcome.value
        M == Cardinality(db.rows)
        limit == outcome.args[2]
    IN /\ Len(v) = IF limit <= M THEN limit ELSE M
       /\ \A k \in 1..Len(v) :
            /\ v[k][1] \in db.rows
            /\ v[k][2] = Km(ST_Distance(v[k][1].geometry, outcome.args[1]))
       /\ \A j, k \in 1..Len(v) : j < k => KmLeq(v[j][2], v[k][2])

\* the limit exceeds the number of stored Features, and the list returned
\* has Features at different distances
C14_Witness ==
  /\ Nearest
  /\ outcome.args[2] > Cardinality(db.rows)
  /\ Len(outcome.value) >= 2
  /\ outcome.value[1][2] # outcome.value[2][2]

\* C15: Features at the same distance from the centre are returned in
\* ascending id order, and of Features at the same distance the limit keeps
\* the one with the smaller id.
C15_TiesInIdOrder ==
  Nearest =>
    LET v == outcome.value
        c == outcome.args[1]
        Returned_rows == {v[k][1] : k \in 1..Len(v)}
    IN /\ \A j, k \in 1..Len(v) :
            (j < k /\ v[j][2] = v[k][2]) => v[j][1].id < v[k][1].id
       /\ \A r \in db.rows \ Returned_rows : \A t \in Returned_rows :
            ST_Distance(r.geometry, c) = ST_Distance(t.geometry, c)
              => t.id < r.id

\* C16: when the centre is the stored centroid of a Feature G and the limit
\* is at least 1, G is the first element returned and its distance is 0.
C16_CentroidFirstAtZero ==
  (Nearest /\ outcome.args[2] >= 1) =>
    \A G \in db.rows :
      G.centroid = Point(outcome.args[1]) =>
        /\ outcome.value[1][1] = G
        /\ outcome.value[1][2] = Km(0)

\* find_within_distance has just returned outcome.value for centre
\* outcome.args[1] and radius outcome.args[2]
Within == outcome.op = "find_within_distance" /\ outcome.status = "returned"

\* C17: every Feature find_within_distance returns for a radius is returned
\* for every larger radius at the same centre on the same store, and every
\* Feature returned for a smaller radius is among those returned.
C17_RadiusMonotone ==
  Within =>
    \A r \in Radii :
      /\ KmLeq(outcome.args[2], r) =>
           outcome.value \subseteq
             find_within_distance(db, outcome.args[1], r)
      /\ KmLeq(r, outcome.args[2]) =>
           find_within_distance(db, outcome.args[1], r)
             \subseteq outcome.value

\* a radius returned Features, and a larger radius returns more
C17_Witness ==
  /\ Within
  /\ outcome.value # {}
  /\ \E r \in Radii :
       /\ KmLeq(outcome.args[2], r)
       /\ find_within_distance(db, outcome.args[1], r) # outcome.value

\* get_statistics_by_district has just returned outcome.value for the
\* district filter outcome.args
Stats ==
  outcome.op = "get_statistics_by_district" /\ outcome.status = "returned"

\* the scores of the Features of S that have one
Scores(S) == {r \in S : r.bilesik_risk_skoru # NoNum}

\* count, building total and min / mean / max of the score of the result v
\* are those of the set S; all are 0 when S has nothing to aggregate
CountAndRiskOver(v, S) ==
  /\ v.neighborhood_count = Cardinality(S)
  /\ v.total_buildings = SumOf(S, "toplam_bina")
  /\ IF Scores(S) = {}
     THEN v.average_risk = Zero /\ v.min_risk = 0 /\ v.max_risk = 0
     ELSE /\ v.average_risk.num * Cardinality(Scores(S))
               = SumOf(S, "bilesik_risk_skoru") * v.average_risk.den
          /\ \A r \in Scores(S) :
               /\ v.min_risk <= Val(r.bilesik_risk_skoru)
               /\ Val(r.bilesik_risk_skoru) <= v.max_risk
          /\ \E r \in Scores(S) : v.min_risk = Val(r.bilesik_risk_skoru)
          /\ \E r \in Scores(S) : v.max_risk = Val(r.bilesik_risk_skoru)

\* C18 as stated: over the set S that get_by_district returns for the same
\* filter, the statistics have count = |S|, total population and total
\* buildings equal to the sums over S, and min / mean / max of the risk
\* score over S; all are 0 when S is empty.
C18_StatisticsAreSums ==
  Stats =>
    LET S == get_by_district(db, outcome.args)
        v == outcome.value
    IN /\ CountAndRiskOver(v, S)
       /\ v.total_population * PopUnit = SumOf(S, "toplam_nufus")

\* C18, amended: as stated, except that the total population is the sum
\* over S cut down to a whole number.
C18_StatisticsWithWholePopulation ==
  Stats =>
    LET S == get_by_district(db, outcome.args)
        v == outcome.value
    IN /\ CountAndRiskOver(v, S)
       /\ v.total_population = SumOf(S, "toplam_nufus") \div PopUnit
       /\ S = {} => /\ v.neighborhood_count = 0
                    /\ v.total_population = 0
                    /\ v.total_buildings = 0

\* statistics of a district of several Features in a store that has other
\* Features too, where the populations add up to a fraction
C18_Witness ==
  /\ Stats
  /\ outcome.value.neighborhood_count >= 2
  /\ outcome.value.neighborhood_count < Cardinality(db.rows)
  /\ SumOf(get_by_district(db, outcome.args), "toplam_nufus") % PopUnit # 0

\* get_by_name has just returned outcome.value for the query outcome.args
ByName == outcome.op = "get_by_name" /\ outcome.status = "returned"

\* the query occurs, letter case aside, in the name field t
NameHit(q, t) == t # None /\ IsSubstring(LowerText(q), LowerText(t))

\* C19: get_by_name(query) returns exactly the Features in which the query
\* is a case-insensitive substring of the name, the clean name or the
\* neighborhood name; one field is enough, and nothing else is returned.
C19_NameIsSubstringMatch ==
  ByName =>
    outcome.value = {r \in db.rows : \/ NameHit(outcome.args, r.name)
                                     \/ NameHit(outcome.args, r.clean_name)
                                     \/ NameHit(outcome.args, r.mahalle_adi)}

\* no two stored Features share an id
UniqueIds == \A r1, r2 \in db.rows : r1.id = r2.id => r1 = r2

\* get_by_id returns the Feature of an assigned id and None for any other
\* id; get_by_name and get_by_district return a collection of Features,
\* empty when the store has none
LookupOutcomes ==
  /\ (outcome.op = "get_by_id" /\ outcome.status = "returned") =>
       IF \E r \in db.rows : r.id = outcome.args
       THEN outcome.value \in db.rows /\ outcome.value.id = outcome.args
       ELSE outcome.value = NotFound
  /\ (outcome.op \in {"get_by_name", "get_by_district"}
        /\ outcome.status = "returned") =>
       /\ outcome.value \subseteq db.rows
       /\ db.rows = {} => outcome.value = {}

\* C20: through every store operation the ids of the stored Features stay
\* pairwise different and every stored Feature keeps its id; get_by_id
\* returns the Feature of an assigned id and None otherwise, get_by_name and
\* get_by_district return a collection, possibly empty.
C20_Identity ==
  [][/\ UniqueIds'
     /\ \A r \in db.rows : r \in db'.rows
     /\ \A r \in db'.rows \ db.rows : r.id >= db.nextId
     /\ LookupOutcomes']_vars

\* an id that was never given to a stored Feature is looked up in a store
\* of several Features
C20_Witness ==
  /\ outcome.op = "get_by_id"
  /\ outcome.status = "returned"
  /\ outcome.value = NotFound
  /\ Cardinality(db.rows) >= 2

\* C21: importFile on a document whose top level is one Feature takes that
\* Feature as its one input: the result reports total = 1 and, when the
\* Feature is valid, loaded = 1 with the Feature stored.
C21_BareFeatureIsOneInput ==
  [][(LoadDone /\ doc.type = "Feature" /\ db.sess = "ok") =>
       /\ fileResult'.success
       /\ fileResult'.total_features = 1
       /\ Readable(doc.body[1].geometry) =>
            /\ fileResult'.loaded_count = 1
            /\ createdIds # {}]_vars

\* C23: a Feature is created exactly once per element counted as loaded and
\* none per element counted as failed: each iteration of the load loop
\* either counts the element as loaded and adds one Feature to the store, or
\* counts it as failed and adds none; reading the file and finishing it add
\* none, and the result reports the count of the loop.
C23_OneFeaturePerLoaded ==
  [][/\ (pc = "load" /\ ~LoadDone) =>
          /\ db.rows \subseteq db'.rows
          /\ loaded_count' - loaded_count \in {0, 1}
          /\ Cardinality(db'.rows) - Cardinality(db.rows)
               = loaded_count' - loaded_count
          /\ Len(errors') - Len(errors) = 1 - (loaded_count' - loaded_count)
     /\ pc = "extract" => (db'.rows = db.rows /\ loaded_count' = 0)
     /\ LoadDone =>
          /\ db'.rows = db.rows
          /\ fileResult'.success =>
               fileResult'.loaded_count = loaded_count]_vars

\* importFile has returned with two elements loaded and two Features more
C23_Witness ==
  /\ op = "file"
  /\ outcome = Returned("file")
  /\ fileResult.loaded_count = 2
  /\ Cardinality(createdIds) = 2
  /\ \A id \in createdIds : get_by_id(db, id) # NotFound

\* C24: the Enrich step leaves the store as it is: across step 2 of
\* run_full_pipeline, entered or skipped, succeeding or failing, no stored
\* Feature is added, removed or changed in any field.
C24_EnrichLeavesStore ==
  [][pc = "predict" => (db'.rows = db.rows /\ db'.txnRows = db.txnRows)]_vars

\* an Enrich step has succeeded over a store that holds Features
C24_Witness ==
  /\ pc = "stats"
  /\ Step("prediction", TRUE) \in Range(report.steps)
  /\ db.rows # {}

\* the report holds an outcome of the Enrich step
HasEnrich(r) == \E k \in 1..Len(r.steps) : r.steps[k].step = "prediction"

\* step 2 recorded an outcome of Enrich and moved on to the statistics
EnrichRecorded ==
  /\ \E ok \in BOOLEAN :
       report'.steps = Append(report.steps, Step("prediction", ok))
  /\ executed' = Append(executed, "prediction")
  /\ pc' = "stats"

\* step 2 recorded nothing and moved on to the statistics
EnrichPassedOver ==
  /\ report' = report
  /\ executed' = executed
  /\ pc' = "stats"

C26_IndexOnceAfterLoad ==
  [][/\ (pc = "load" /\ ~LoadDone) =>
          (db'.indexes = db.indexes /\ pc' = "load")
     /\ pc = "extract" => db'.indexes = db.indexes
     /\ LoadDone =>
          /\ pc' # "load"
          /\ IF db.sess = "ok"
             THEN db'.indexes = <<IndexName>> /\ fileResult'.success
             ELSE db'.indexes = db.indexes /\ ~fileResult'.success]_vars

\* a file of two elements has returned, and the index is in place
C26_Witness ==
  /\ op = "file"
  /\ outcome = Returned("file")
  /\ fileResult.total_features = 2
  /\ db.indexes = <<IndexName>>

\* C27: when incremental_update returns, every element of the document has
\* been counted as new or as existing: new_features + updated_features =
\* total_processed.
C27_EveryElementCounted ==
  outcome = Returned("incr") =>
    new_count + updated_count = Len(DocFeatures(doc))

\* C28: when incremental_update has returned, every element that carries a
\* name has a stored Feature whose name or clean name is exactly that name.
C28_NamedElementsStored ==
  outcome = Returned("incr") =>
    \A k \in 1..Len(DocFeatures(doc)) :
      LET name == LookupName(DocFeatures(doc)[k])
      IN Truthy(name) =>
           \E r \in db.rows : r.name = name \/ r.clean_name = name

\* C30: on a session shared by many items and files each create and each
\* file ends as it would alone on a fresh session: an element is counted as
\* loaded exactly when its create succeeds on a fresh session with the same
\* database behaviour, and a file in which no element failed returns
\* success.
C30_NoLeakThroughSession ==
  [][/\ (pc = "load" /\ ~LoadDone /\ injected' = injected) =>
          LET alone == create_from_geojson_feature(
                         close(db), DocFeatures(doc)[i], "none")
          IN (loaded_count' = loaded_count + 1) <=> alone.ok
     /\ (LoadDone /\ errors = <<>>) => fileResult'.success]_vars

\* C22: importFile validates the structure before it touches the store: an
\* element without geometry is rejected in its iteration of the load loop
\* with an error recorded and no statement issued (the database, its id
\* sequence and the session stay as they are), and a document of an
\* unrecognized top-level kind is rejected instead of reported as a success.
C22_ValidatedBeforeStore ==
  [][/\ (pc = "load" /\ ~LoadDone
           /\ DocFeatures(doc)[i].geometry = NoGeometry) =>
          /\ db' = db
          /\ errors' = Append(errors, i)
          /\ loaded_count' = loaded_count
     /\ (LoadDone /\ doc.type = "Unknown") => ~fileResult'.success]_vars

\* C29: a second run of incremental_update on the same document, straight
\* after a first run that returned normally, creates nothing: it changes no
\* stored Feature and its count of new features stays 0.
C29_SecondRunAddsNothing ==
  [][op = "incr_again" => (db'.rows = db.rows /\ new_count' = 0)]_vars

====
